---- MODULE Spec2Model ----
(***************************************************************************)
(* State-machine model of the irid Renderer: RendererBuilder::build, the   *)
(* Renderer's resize / refresh_current_size / process_camera_events /      *)
(* redraw operations, the Surface and Queue wrappers they call, and the    *)
(* backend-side effects (pending queue writes, submissions, presents).     *)
(***************************************************************************)
EXTENDS Integers, Sequences, FiniteSets, TLC

VARIABLES
    phase,      \* "builder" | "built" | "failed" | "panicked"
    window,     \* the winit window: [inner_size]
    builder,    \* the RendererBuilder's optional fields
    renderer,   \* the Renderer struct (meaningful once phase = "built")
    gpu,        \* backend side: uniform buffer, submissions, presents, surface
    lastCall,   \* the most recent call on the builder / renderer and its outcome
    nRedraws,   \* number of redraw() calls made so far
    nOk,        \* number of redraw() calls that returned Ok(())
    requested,  \* the size the caller last asked for: the window's at build,
                \* then the argument of the latest resize
    pipeline_builder, \* a RenderPipelineBuilder on its own: its stage, its fields,
                      \* the pipeline it built and the pipelines frames have bound
    state             \* the legacy State struct (src/state.rs) and its backend side

rendererVars == <<phase, window, builder, renderer, gpu, lastCall, nRedraws, nOk, requested>>

vars == <<phase, window, builder, renderer, gpu, lastCall, nRedraws, nOk, requested,
          pipeline_builder, state>>

\* ---------------------------------------------------------------- bounds

MaxSide == 2        \* widths and heights of a resize range over 0..MaxSide
MaxFrames == 2      \* redraw() calls explored per run

\* ------------------------------------------------------ program constants

NUM_INSTANCES_PER_ROW == 10
MAX_TEXTURE_DIMENSION_2D == 8192
HARDCODED_TEXTURE_INDEX == 8

\* indices: Option<&[u32]>: the width of an uploaded index
INDEX_ELEMENT_BITS == 32

\* wgpu::IndexFormat::Uint16: the width redraw() reads indices with
INDEX_FORMAT_BITS == 16

\* ---------------------------------------------------------------- Option

None == <<>>
Some(x) == <<x>>
IsSome(o) == o /= <<>>
IsNone(o) == o = <<>>
Unwrap(o) == o[1]
UnwrapOr(o, d) == IF IsSome(o) THEN o[1] ELSE d

\* ------------------------------------------------------------ input sets

\* the sizes a resize is tried with: the empty size and every split of MaxSide
Sides == 0..MaxSide
Sizes == {[width |-> w, height |-> h] : <<w, h>> \in
             {p \in Sides \X Sides : p[1] + p[2] \in {0, MaxSide}}}

\* the window's inner size when the builder is created
WindowSizes == {[width |-> MaxSide + 1, height |-> 1]}

ShaderPaths == {"shader.wgsl", "missing.wgsl"}
TexturePaths == {"tex256.png", "tex2x1.png", "gray256.png", "npot.png", "huge.png",
                 "missing.png"}
ClearColors == {"BLACK"}
VertexSlices == {3}
IndexSlices == {0, 3}

\* std::fs::read_to_string on the shader path
ReadToString(path) ==
    IF path = "shader.wgsl" THEN Some("wgsl source") ELSE None

\* T::load(path): the decoded texture, or None when loading fails
TextureLoad(path) ==
    CASE path = "tex256.png"  -> Some([path |-> path, width |-> 256, height |-> 256, rgba |-> TRUE])
      [] path = "tex2x1.png"  -> Some([path |-> path, width |-> 2, height |-> 1, rgba |-> TRUE])
      [] path = "gray256.png" -> Some([path |-> path, width |-> 256, height |-> 256, rgba |-> FALSE])
      [] path = "npot.png"    -> Some([path |-> path, width |-> 300, height |-> 200, rgba |-> TRUE])
      [] path = "huge.png"    -> Some([path |-> path, width |-> 16384, height |-> 16384, rgba |-> TRUE])
      [] OTHER                -> None

\* wgpu::SurfaceError
SurfaceErrors == {"Timeout", "Outdated", "Lost", "OutOfMemory"}
AcquireOutcomes == {"Success"} \cup SurfaceErrors

\* ------------------------------------------------------------- utilities

RECURSIVE Pow2(_)
Pow2(n) == IF n = 0 THEN 1 ELSE 2 * Pow2(n - 1)

\* irid_utils::log2 on a positive i32: position of the highest set bit
RECURSIVE log2(_)
log2(x) == IF x <= 1 THEN 0 ELSE 1 + log2(x \div 2)

\* Rust slice indexing v[i], i counted from 0
InBounds(v, i) == i >= 0 /\ i < Len(v)
At(v, i) == v[i + 1]

\* --------------------------------------------------------------- Surface

\* Surface::new: the adapter request decides success; the format is the
\* configured one, else the surface's preferred one, else Rgba8UnormSrgb.
\* variant: the failed adapter request is not propagated
Surface_new_ignores_adapter(win, preferred_format, present_mode, env) ==
    LET format == UnwrapOr(preferred_format,
                           UnwrapOr(env.surface_format, "Rgba8UnormSrgb"))
        window_size == win.inner_size
    IN [ok |-> TRUE,
        surface |-> [format |-> format,
                     configuration |-> [usage |-> "RENDER_ATTACHMENT",
                                        format |-> format,
                                        width |-> window_size.width,
                                        height |-> window_size.height,
                                        present_mode |-> present_mode]]]

Surface_new(win, preferred_format, present_mode, env) ==
    IF ~env.adapter
    THEN [ok |-> FALSE, error |-> "AdapterNotObtained"]
    ELSE LET format == UnwrapOr(preferred_format,
                                UnwrapOr(env.surface_format, "Rgba8UnormSrgb"))
             window_size == win.inner_size
         IN [ok |-> TRUE,
             surface |-> [format |-> format,
                          configuration |-> [usage |-> "RENDER_ATTACHMENT",
                                             format |-> format,
                                             width |-> window_size.width,
                                             height |-> window_size.height,
                                             present_mode |-> present_mode]]]

\* Surface::configure: hands the stored configuration to the backend
Surface_configure(surface, g) ==
    [g EXCEPT !.surface_config = Some(surface.configuration)]

\* variant: only the width reaches the configuration
Surface_update_width_only(surface, g, size) ==
    LET updated == [surface EXCEPT !.configuration.width = size.width]
    IN [surface |-> updated, gpu |-> Surface_configure(updated, g)]

\* Surface::update: new width/height into the configuration, then configure
Surface_update(surface, g, size) ==
    LET updated == [surface EXCEPT !.configuration.width = size.width,
                                   !.configuration.height = size.height]
    IN [surface |-> updated, gpu |-> Surface_configure(updated, g)]

\* variant: an out-of-memory answer is reported as a timeout
Surface_get_current_texture_masked(surface, g, outcome) ==
    IF outcome = "Success"
    THEN [ok |-> TRUE, error |-> "",
          frame |-> Some([id |-> g.acquired + 1,
                          width |-> Unwrap(g.surface_config).width,
                          height |-> Unwrap(g.surface_config).height]),
          gpu |-> [g EXCEPT !.acquired = @ + 1]]
    ELSE [ok |-> FALSE,
          error |-> IF outcome = "OutOfMemory" THEN "Timeout" ELSE outcome,
          frame |-> None, gpu |-> g]

\* Surface::get_current_texture: the backend's answer, passed through
Surface_get_current_texture(surface, g, outcome) ==
    IF outcome = "Success"
    THEN [ok |-> TRUE, error |-> "",
          frame |-> Some([id |-> g.acquired + 1,
                          width |-> Unwrap(g.surface_config).width,
                          height |-> Unwrap(g.surface_config).height]),
          gpu |-> [g EXCEPT !.acquired = @ + 1]]
    ELSE [ok |-> FALSE, error |-> outcome, frame |-> None, gpu |-> g]

\* ---------------------------------------------------------------- Camera

Camera_new(width, height) == [eye |-> 0, aspect |-> <<width, height>>]

\* CameraUniform::update_view_proj: the matrix is a function of the camera
update_view_proj(camera) == [eye |-> camera.eye, aspect |-> camera.aspect]

Camera_create_metadatas(camera) ==
    [uniform |-> update_view_proj(camera),
     buffer |-> "camera_buffer",
     bind_group_layout |-> "camera_bgl",
     bind_group |-> "camera_bg"]

\* speed is kept in tenths of a unit: CameraController::new(0.2)
CameraController_new(speed_tenths) ==
    [speed |-> speed_tenths, is_forward_pressed |-> FALSE, is_backward_pressed |-> FALSE]

KeyboardInputs ==
    {"forward_pressed", "forward_released", "other"}

CameraController_process_events(cc, input) ==
    CASE input = "forward_pressed"  -> [handled |-> TRUE, cc |-> [cc EXCEPT !.is_forward_pressed = TRUE]]
      [] input = "forward_released" -> [handled |-> TRUE, cc |-> [cc EXCEPT !.is_forward_pressed = FALSE]]
      [] OTHER                      -> [handled |-> FALSE, cc |-> cc]

CameraController_update_camera(cc, camera) ==
    LET fwd == IF cc.is_forward_pressed THEN cc.speed ELSE 0
        bwd == IF cc.is_backward_pressed THEN cc.speed ELSE 0
    IN [camera EXCEPT !.eye = camera.eye + fwd - bwd]

\* ------------------------------------------------------ texture metadatas

\* variant: a vector that already holds qty elements (vec![..; qty])
Vec_with_len(qty) == [i \in 1..qty |-> "unset"]

\* Vec::with_capacity(qty): storage is reserved, the vector has no elements
Vec_with_capacity(qty) == <<>>

TextureImageMetadatas_new(format, width, height) ==
    [format |-> format, width |-> width, height |-> height]

TextureBindGroupMetadatas_new(texture) ==
    [texture |-> texture,
     bind_group_layout |-> <<"texture_bgl", texture.width, texture.height>>,
     bind_group |-> <<"texture_bg", texture.width, texture.height>>]

TextureDepthMetadatas_new(size) ==
    [format |-> "Depth32Float", width |-> size.width, height |-> size.height]

\* for (width, w_element) in vec_w.iter_mut().enumerate(): one assignment per
\* element the vector already has
create_texture_image_metadatas(preferred_format) ==
    LET qty == log2(MAX_TEXTURE_DIMENSION_2D)
        vec_w == Vec_with_capacity(qty)
    IN [w \in 1..Len(vec_w) |->
           LET vec_h == Vec_with_capacity(qty)
           IN [h \in 1..Len(vec_h) |->
                  TextureImageMetadatas_new(preferred_format, Pow2(w - 1), Pow2(h - 1))]]

create_texture_bind_group_metadatas(texture_image_metadatas) ==
    LET qty == Len(texture_image_metadatas)
        vec_w == Vec_with_capacity(qty)
    IN [w \in 1..Len(vec_w) |->
           LET vec_h == Vec_with_capacity(qty)
           IN [h \in 1..Len(vec_h) |->
                  TextureBindGroupMetadatas_new(At(At(texture_image_metadatas, w - 1), h - 1))]]

\* -------------------------------------------------------------- instances

\* variant: the grid is generated column by column (x outer, z inner)
create_instances_column_major ==
    LET N == NUM_INSTANCES_PER_ROW
    IN [k \in 1..(N * N) |->
           LET x == (k - 1) \div N
               z == (k - 1) % N
               position == [x2 |-> 2 * x - N, y2 |-> 0, z2 |-> 2 * z - N]
               is_zero == position.x2 = 0 /\ position.y2 = 0 /\ position.z2 = 0
           IN [position |-> position,
               rotation |-> IF is_zero
                            THEN [axis |-> "unit_z", angle |-> "0"]
                            ELSE [axis |-> <<"normalize", position>>, angle |-> "PI/4"]]]

\* positions are kept in half units, so that x - N * 0.5 is exact: x2 = 2x - N
create_instances ==
    LET N == NUM_INSTANCES_PER_ROW
    IN [k \in 1..(N * N) |->
           LET z == (k - 1) \div N
               x == (k - 1) % N
               position == [x2 |-> 2 * x - N, y2 |-> 0, z2 |-> 2 * z - N]
               is_zero == position.x2 = 0 /\ position.y2 = 0 /\ position.z2 = 0
           IN [position |-> position,
               rotation |-> IF is_zero
                            THEN [axis |-> "unit_z", angle |-> "0"]
                            ELSE [axis |-> <<"normalize", position>>, angle |-> "PI/4"]]]

create_instances_buffer(instances) ==
    [label |-> "Instance Buffer", len |-> Len(instances), usage |-> "VERTEX"]

\* ------------------------------------------------------------------ Queue

\* Queue::write_camera_buffer: a copy of the uniform gets the camera's current
\* matrix and the write is enqueued for the next submit
Queue_write_camera_buffer(queue, camera, camera_metadatas) ==
    LET camera_uniform == update_view_proj(camera)
    IN [queue EXCEPT !.pending =
           Append(@, [kind |-> "buffer", target |-> camera_metadatas.buffer,
                      data |-> camera_uniform])]

\* Queue::write_texture
Queue_write_texture(queue, texture_image_metadatas, texture) ==
    LET iw == log2(texture.width)
        ih == log2(texture.height)
    IN IF ~InBounds(texture_image_metadatas, iw)
          \/ ~InBounds(At(texture_image_metadatas, iw), ih)
       THEN [panic |-> TRUE, result |-> "panic", queue |-> queue]
       ELSE LET metadatas == At(At(texture_image_metadatas, iw), ih)
            IN IF ~texture.rgba
               THEN [panic |-> FALSE, result |-> "RgbaTextureNoneBytes", queue |-> queue]
               ELSE [panic |-> FALSE, result |-> "Ok",
                     queue |-> [queue EXCEPT !.pending =
                        Append(@, [kind |-> "texture",
                                   target |-> <<metadatas.width, metadatas.height>>,
                                   data |-> texture.path])]]

\* the backend applies one enqueued write
ApplyWrite(g, wr) ==
    IF wr.kind = "buffer"
    THEN [g EXCEPT !.uniform = Some(wr.data)]
    ELSE [g EXCEPT !.textures = Append(@, [target |-> wr.target, data |-> wr.data])]

RECURSIVE ApplyWrites(_, _)
ApplyWrites(g, writes) ==
    IF writes = <<>> THEN g
    ELSE ApplyWrites(ApplyWrite(g, Head(writes)), Tail(writes))

\* variant: the command buffer is handed to the backend twice
Queue_submit_twice(queue, g, command_buffer) ==
    LET g1 == ApplyWrites(g, queue.pending)
        entry == [id |-> Len(g1.submitted) + 1,
                  frame |-> command_buffer.frame,
                  uniform |-> g1.uniform,
                  draws |-> Len(command_buffer.pass.draws)]
    IN [queue |-> [queue EXCEPT !.pending = <<>>],
        gpu |-> [g1 EXCEPT !.submitted = Append(Append(@, entry),
                                                [entry EXCEPT !.id = @ + 1])]]

\* variant: the submission runs without the writes enqueued before it
Queue_submit_skips_writes(queue, g, command_buffer) ==
    LET entry == [id |-> Len(g.submitted) + 1,
                  frame |-> command_buffer.frame,
                  uniform |-> g.uniform,
                  draws |-> Len(command_buffer.pass.draws)]
    IN [queue |-> queue,
        gpu |-> [g EXCEPT !.submitted = Append(@, entry)]]

\* variant: the newest submission is put ahead of the ones already handed over
Queue_submit_ahead(queue, g, command_buffer) ==
    LET g1 == ApplyWrites(g, queue.pending)
        entry == [id |-> Len(g1.submitted) + 1,
                  frame |-> command_buffer.frame,
                  uniform |-> g1.uniform,
                  draws |-> Len(command_buffer.pass.draws)]
    IN [queue |-> [queue EXCEPT !.pending = <<>>],
        gpu |-> [g1 EXCEPT !.submitted = <<entry>> \o @]]

\* Queue::submit: pending writes happen at the start of the submission, then
\* the command buffers run in the order given
Queue_submit(queue, g, command_buffer) ==
    LET g1 == ApplyWrites(g, queue.pending)
        entry == [id |-> Len(g1.submitted) + 1,
                  frame |-> command_buffer.frame,
                  uniform |-> g1.uniform,
                  draws |-> Len(command_buffer.pass.draws)]
    IN [queue |-> [queue EXCEPT !.pending = <<>>],
        gpu |-> [g1 EXCEPT !.submitted = Append(@, entry)]]

\* SurfaceTexture::present
Frame_present(g, frame) ==
    [g EXCEPT !.presented =
        Append(@, [frame |-> frame.id,
                   rendered |-> \E i \in 1..Len(g.submitted) : g.submitted[i].frame = frame.id])]

\* ------------------------------------------------- RendererBuilder::build

NoRenderer == [none |-> TRUE]

NoGpu ==
    [uniform |-> None, textures |-> <<>>, submitted |-> <<>>, presented |-> <<>>,
     surface_config |-> None, acquired |-> 0]

BuildEnvs == [adapter : BOOLEAN, device : BOOLEAN,
              surface_format : {None, Some("Bgra8UnormSrgb")}]

\* ---------------------------------------------------- RenderPipelineBuilder

VertexStates == {[buffers |-> <<>>],
                 [buffers |-> <<"ModelVertex">>],
                 [buffers |-> <<"ModelVertex", "InstanceRaw">>]}

FragmentStates ==
    {[targets |-> <<[format |-> f, blend |-> "REPLACE", write_mask |-> "ALL"]>>] :
        f \in {"Bgra8UnormSrgb", "Rgba8UnormSrgb", "Rgba16Float"}}

PipelineLayouts == {<<"texture_bgl", "camera_bgl">>, <<"camera_bgl">>}

\* RenderPipelineBuilder::new(vertex); without a vertex stage the builder is Empty
RenderPipelineBuilder_new(vertex) ==
    [vertex |-> vertex, fragment |-> None, layout |-> None]

RenderPipelineBuilder_with_fragment(b, fragment) ==
    [b EXCEPT !.fragment = Some(fragment)]

RenderPipelineBuilder_with_layout(b, layout) ==
    [b EXCEPT !.layout = Some(layout)]

\* build(): fails without a vertex stage, succeeds with or without a fragment
\* stage; no layout given means the empty layout
RenderPipelineBuilder_build(b) ==
    IF IsNone(b.vertex)
    THEN [ok |-> FALSE, pipeline |-> None]
    ELSE [ok |-> TRUE,
          pipeline |-> Some([vertex |-> Unwrap(b.vertex),
                             fragment |-> b.fragment,
                             layout |-> UnwrapOr(b.layout, <<>>)])]

\* the stage of a builder that has not been built
BuilderStage(b) ==
    IF IsNone(b.vertex) THEN "Empty"
    ELSE IF IsNone(b.fragment) THEN "VertexSet" ELSE "FragmentSet"

NoPipelineBuilder ==
    [state |-> "Empty", builder |-> RenderPipelineBuilder_new(None),
     pipeline |-> None, bound |-> <<>>]

\* variant: a failure inside the pipeline block is swallowed and the build
\* goes on without a pipeline
build_pipeline_lenient(shader_path, surface, texture_bind_group_metadatas, camera_metadatas) ==
    [panic |-> FALSE, error |-> "", pipeline |-> None]

\* the pipeline block of build(): Some(pipeline) with a shader path, else None
build_pipeline(shader_path, surface, texture_bind_group_metadatas, camera_metadatas) ==
    IF IsSome(shader_path)
    THEN IF IsNone(ReadToString(Unwrap(shader_path)))
         THEN [panic |-> TRUE, error |-> "Couldn't open shader file", pipeline |-> None]
         ELSE IF ~InBounds(texture_bind_group_metadatas, HARDCODED_TEXTURE_INDEX)
                 \/ ~InBounds(At(texture_bind_group_metadatas, HARDCODED_TEXTURE_INDEX),
                              HARDCODED_TEXTURE_INDEX)
         THEN [panic |-> TRUE, error |-> "index out of bounds", pipeline |-> None]
         ELSE LET texture_bgl == At(At(texture_bind_group_metadatas, HARDCODED_TEXTURE_INDEX),
                                    HARDCODED_TEXTURE_INDEX).bind_group_layout
                  camera_bgl == camera_metadatas.bind_group_layout
                  vertex == [buffers |-> <<"ModelVertex", "InstanceRaw">>]
                  fragment == [targets |-> <<[format |-> surface.format,
                                              blend |-> "REPLACE",
                                              write_mask |-> "ALL"]>>]
                  pipeline_layout == <<texture_bgl, camera_bgl>>
              IN [panic |-> FALSE, error |-> "",
                  pipeline |->
                      RenderPipelineBuilder_build(
                          RenderPipelineBuilder_with_layout(
                              RenderPipelineBuilder_with_fragment(
                                  RenderPipelineBuilder_new(Some(vertex)), fragment),
                              pipeline_layout)).pipeline]
    ELSE [panic |-> FALSE, error |-> "", pipeline |-> None]

\* the "Queue Schedule" block of build(): the texture is loaded with unwrap()
\* and written; the Result of write_texture is dropped
build_write_texture(texture_path, queue, texture_image_metadatas) ==
    IF IsSome(texture_path)
    THEN LET loaded == TextureLoad(Unwrap(texture_path))
         IN IF IsNone(loaded)
            THEN [panic |-> TRUE, error |-> "unwrap on a failed texture load", queue |-> queue]
            ELSE LET wr == Queue_write_texture(queue, texture_image_metadatas, Unwrap(loaded))
                 IN IF wr.panic
                    THEN [panic |-> TRUE, error |-> "index out of bounds", queue |-> queue]
                    ELSE [panic |-> FALSE, error |-> "", queue |-> wr.queue]
    ELSE [panic |-> FALSE, error |-> "", queue |-> queue]

BuildOutcome(ph, result, error, r, g, log) ==
    [phase |-> ph, result |-> result, error |-> error, renderer |-> r, gpu |-> g, log |-> log]

build(b, win, env) ==
    LET window_size == win.inner_size
        sres == Surface_new(win, None, "Fifo", env)
    IN
    IF ~sres.ok
    THEN BuildOutcome("failed", "Err", "SurfaceAdapterRequest", NoRenderer, NoGpu,
                      <<"Surface+Adapter">>)
    ELSE IF ~env.device
    THEN BuildOutcome("failed", "Err", "DeviceRequest", NoRenderer, NoGpu,
                      <<"Surface+Adapter", "Device+Queue">>)
    ELSE
    LET surface == sres.surface
        queue0 == [pending |-> <<>>]
        g0 == Surface_configure(surface, NoGpu)
        camera == Camera_new(window_size.width, window_size.height)
        camera_metadatas == Camera_create_metadatas(camera)
        g1 == [g0 EXCEPT !.uniform = Some(camera_metadatas.uniform)]
        camera_controller == CameraController_new(2)
        texture_image_metadatas == create_texture_image_metadatas(surface.format)
        texture_bind_group_metadatas ==
            create_texture_bind_group_metadatas(texture_image_metadatas)
        texture_depth_metadatas == TextureDepthMetadatas_new(window_size)
        pipe == build_pipeline(b.shader_path, surface, texture_bind_group_metadatas,
                               camera_metadatas)
        log5 == <<"Surface+Adapter", "Device+Queue", "ConfigureSurface", "Camera",
                  "TextureCache">>
        log6 == IF IsSome(b.shader_path) THEN Append(log5, "Pipeline") ELSE log5
    IN
    IF pipe.panic
    THEN BuildOutcome("panicked", "panic", pipe.error, NoRenderer, g1, log6)
    ELSE
    LET tex == build_write_texture(b.texture_path, queue0, texture_image_metadatas)
        log7 == IF IsSome(b.texture_path) THEN Append(log6, "TexturePayload") ELSE log6
    IN
    IF tex.panic
    THEN BuildOutcome("panicked", "panic", tex.error, NoRenderer, g1, log7)
    ELSE
    LET vertex_buffer ==
            IF IsSome(b.vertices)
            THEN Some([label |-> "Vertex Buffer", len |-> Unwrap(b.vertices)])
            ELSE None
        index_buffer ==
            IF IsSome(b.indices)
            THEN Some([label |-> "Index Buffer", len |-> Unwrap(b.indices),
                       element_bits |-> INDEX_ELEMENT_BITS])
            ELSE None
        num_indices == IF IsSome(b.indices) THEN Unwrap(b.indices) ELSE 0
        instances == IF IsSome(b.vertices) THEN Some(create_instances) ELSE None
        instances_buffer ==
            IF IsSome(b.vertices)
            THEN Some(create_instances_buffer(create_instances))
            ELSE None
    IN BuildOutcome("built", "Ok", "",
          [window_size |-> window_size,
           clear_color |-> UnwrapOr(b.clear_color, "WHITE"),
           surface |-> surface,
           queue |-> tex.queue,
           camera |-> camera,
           camera_metadatas |-> camera_metadatas,
           camera_controller |-> camera_controller,
           texture_image_metadatas |-> texture_image_metadatas,
           texture_bind_group_metadatas |-> texture_bind_group_metadatas,
           texture_depth_metadatas |-> texture_depth_metadatas,
           renderer_pipeline |-> pipe.pipeline,
           vertex_buffer |-> vertex_buffer,
           index_buffer |-> index_buffer,
           num_indices |-> num_indices,
           instances |-> instances,
           instances_buffer |-> instances_buffer],
          g1,
          log7 \o <<"VertexIndexBuffers">>
               \o (IF IsSome(instances) THEN <<"InstanceGrid">> ELSE <<>>))

\* ------------------------------------------------------- Renderer::redraw

\* begin_render_pass: one colour attachment cleared to clear_color, the depth
\* attachment cleared to 1.0, no stencil ops
begin_render_pass(r, frame) ==
    [color_view |-> frame.id,
     color_load |-> <<"Clear", r.clear_color>>,
     depth_view |-> r.texture_depth_metadatas,
     depth_load |-> <<"Clear", "1.0">>,
     stencil_ops |-> None,
     pipeline |-> None,
     bind_groups |-> <<>>,
     vertex_buffers |-> <<>>,
     index_buffer |-> None,
     draws |-> <<>>]

\* variant: the pass gets a copy of the pipeline without its fragment stage
set_pipeline_vertex_only(pass, pipeline) ==
    [pass EXCEPT !.pipeline = Some([pipeline EXCEPT !.fragment = None])]

\* render_pass.set_pipeline(pipeline.expose_wrapped_render_pipeline())
set_pipeline(pass, pipeline) ==
    [pass EXCEPT !.pipeline = Some(pipeline)]

\* variant: the vertex and instance buffers are bound whether or not there is
\* a pipeline
encode_pass_buffers_without_pipeline(r, pass) ==
    LET p2 == IF IsSome(r.vertex_buffer)
              THEN [pass EXCEPT !.vertex_buffers = Append(@, <<0, Unwrap(r.vertex_buffer)>>)]
              ELSE pass
        p3 == IF IsSome(r.instances_buffer)
              THEN [p2 EXCEPT !.vertex_buffers = Append(@, <<1, Unwrap(r.instances_buffer)>>)]
              ELSE p2
    IN [panic |-> FALSE, error |-> "", pass |-> p3]

\* variant: a draw is recorded whatever was built
encode_pass_draw_unconditional(r, pass) ==
    [panic |-> FALSE, error |-> "",
     pass |-> [pass EXCEPT !.draws = Append(@, [indices |-> <<0, r.num_indices>>,
                                                base_vertex |-> 0,
                                                instances |-> <<0, 0>>])]]

\* the body of the render pass: everything hangs on renderer_pipeline
encode_pass(r, pass) ==
    IF IsSome(r.renderer_pipeline)
    THEN IF ~InBounds(r.texture_bind_group_metadatas, HARDCODED_TEXTURE_INDEX)
            \/ ~InBounds(At(r.texture_bind_group_metadatas, HARDCODED_TEXTURE_INDEX),
                         HARDCODED_TEXTURE_INDEX)
         THEN [panic |-> TRUE, error |-> "index out of bounds", pass |-> pass]
         ELSE
         LET p1 == [set_pipeline(pass, Unwrap(r.renderer_pipeline)) EXCEPT
                      !.bind_groups =
                          <<At(At(r.texture_bind_group_metadatas, HARDCODED_TEXTURE_INDEX),
                               HARDCODED_TEXTURE_INDEX).bind_group,
                            r.camera_metadatas.bind_group>>]
             p2 == IF IsSome(r.vertex_buffer)
                   THEN [p1 EXCEPT !.vertex_buffers = Append(@, <<0, Unwrap(r.vertex_buffer)>>)]
                   ELSE p1
             p3 == IF IsSome(r.instances_buffer)
                   THEN [p2 EXCEPT !.vertex_buffers = Append(@, <<1, Unwrap(r.instances_buffer)>>)]
                   ELSE p2
         IN IF IsSome(r.index_buffer)
            THEN IF IsNone(r.instances)
                 THEN [panic |-> TRUE, error |-> "unwrap on None instances",
                       pass |-> [p3 EXCEPT !.index_buffer =
                                    Some([buffer |-> Unwrap(r.index_buffer), format_bits |-> INDEX_FORMAT_BITS])]]
                 ELSE [panic |-> FALSE, error |-> "",
                       pass |-> [p3 EXCEPT
                          !.index_buffer =
                              Some([buffer |-> Unwrap(r.index_buffer), format_bits |-> INDEX_FORMAT_BITS]),
                          !.draws = Append(@, [indices |-> <<0, r.num_indices>>,
                                               base_vertex |-> 0,
                                               instances |-> <<0, Len(Unwrap(r.instances))>>])]]
            ELSE [panic |-> FALSE, error |-> "", pass |-> p3]
    ELSE [panic |-> FALSE, error |-> "", pass |-> pass]

\* a call in progress: the renderer, the backend and the steps taken so far
Ctx(r, g, log) == [r |-> r, g |-> g, log |-> log]

\* camera_controller.update_camera, then queue.write_camera_buffer
redraw_update_camera(ctx) ==
    LET camera == CameraController_update_camera(ctx.r.camera_controller, ctx.r.camera)
        queue == Queue_write_camera_buffer(ctx.r.queue, camera, ctx.r.camera_metadatas)
    IN Ctx([ctx.r EXCEPT !.camera = camera, !.queue = queue], ctx.g,
           Append(ctx.log, "UpdateCamera"))

\* self.queue.submit(once(encoder.finish()))
redraw_submit(ctx, command_buffer) ==
    LET s == Queue_submit(ctx.r.queue, ctx.g, command_buffer)
    IN Ctx([ctx.r EXCEPT !.queue = s.queue], s.gpu, Append(ctx.log, "Submit"))

\* frame.present()
redraw_present(ctx, frame) ==
    Ctx(ctx.r, Frame_present(ctx.g, frame), Append(ctx.log, "Present"))

\* variant: the frame is presented before the command buffer is submitted
redraw_present_submit(ctx, command_buffer, frame) ==
    redraw_submit(redraw_present(ctx, frame), command_buffer)

\* the two closing statements of redraw(), in their order
redraw_submit_present(ctx, command_buffer, frame) ==
    redraw_present(redraw_submit(ctx, command_buffer), frame)

RedrawOutcome(result, error, ctx, frame, cb) ==
    [result |-> result, error |-> error, renderer |-> ctx.r, gpu |-> ctx.g,
     log |-> ctx.log, frame |-> frame, cb |-> cb]

\* variant: on Outdated / Lost the surface is reconfigured and the frame is
\* asked for once more before the call gives up
redraw_acquire_retry(ctx, outcome) ==
    LET acq == Surface_get_current_texture(ctx.r.surface, ctx.g, outcome)
    IN IF outcome \in {"Outdated", "Lost"}
       THEN LET upd == Surface_update(ctx.r.surface, acq.gpu, ctx.r.window_size)
                again == Surface_get_current_texture(upd.surface, upd.gpu, outcome)
            IN [ok |-> again.ok, error |-> again.error, frame |-> again.frame,
                ctx |-> Ctx([ctx.r EXCEPT !.surface = upd.surface], again.gpu,
                            ctx.log \o <<"AcquireFrame", "Configure", "AcquireFrame">>)]
       ELSE [ok |-> acq.ok, error |-> acq.error, frame |-> acq.frame,
             ctx |-> Ctx(ctx.r, acq.gpu, Append(ctx.log, "AcquireFrame"))]

\* variant: a failed acquisition takes back the camera write scheduled before it
redraw_acquire_rollback(ctx, outcome) ==
    LET acq == Surface_get_current_texture(ctx.r.surface, ctx.g, outcome)
        r == IF acq.ok THEN ctx.r
             ELSE [ctx.r EXCEPT !.queue.pending = SubSeq(@, 1, Len(@) - 1)]
    IN [ok |-> acq.ok, error |-> acq.error, frame |-> acq.frame,
        ctx |-> Ctx(r, acq.gpu, Append(ctx.log, "AcquireFrame"))]

\* get_current_texture()?: an error leaves redraw at once, as its own result
redraw_acquire(ctx, outcome) ==
    LET acq == Surface_get_current_texture(ctx.r.surface, ctx.g, outcome)
    IN [ok |-> acq.ok, error |-> acq.error, frame |-> acq.frame,
        ctx |-> Ctx(ctx.r, acq.gpu, Append(ctx.log, "AcquireFrame"))]

redraw(r, g, outcome) ==
    LET c1 == redraw_update_camera(Ctx(r, g, <<>>))
        acq == redraw_acquire(c1, outcome)
    IN
    IF ~acq.ok
    THEN RedrawOutcome("Err", acq.error, acq.ctx, None, None)
    ELSE
    LET frame == Unwrap(acq.frame)
        c2 == acq.ctx
        enc == encode_pass(c2.r, begin_render_pass(c2.r, frame))
        c3 == Ctx(c2.r, c2.g, Append(c2.log, "Encode"))
        cb == [label |-> "Render Encoder", frame |-> frame.id, pass |-> enc.pass]
    IN
    IF enc.panic
    THEN RedrawOutcome("panic", enc.error, c3, acq.frame, None)
    ELSE RedrawOutcome("Ok", "", redraw_submit_present(c3, cb, frame), acq.frame, Some(cb))

\* ------------------------------------------------------- legacy State

SwapChainErrors == {"Timeout", "Outdated", "Lost", "OutOfMemory"}
FrameOutcomes == {"Success"} \cup SwapChainErrors

CursorPositions == {[x |-> 1, y |-> MaxSide]}

\* the window events the event loop hands to State::input
WindowEvents ==
    {[kind |-> "CursorMoved", position |-> p] : p \in CursorPositions}
        \cup {[kind |-> "KeyboardInput", position |-> [x |-> 0, y |-> 0]],
              [kind |-> "Focused", position |-> [x |-> 0, y |-> 0]]}

StateEnvs == [adapter : BOOLEAN, device : BOOLEAN]

\* the record of the latest call on the State
StateCall(op, arg, result) == [op |-> op, arg |-> arg, result |-> result]

\* wgpu::Color::BLACK, in the form input() gives a colour
Color_BLACK == [r |-> <<0, 1>>, g |-> <<0, 1>>, b |-> "0.0", a |-> "1.0"]

\* no State yet
NoState ==
    [phase |-> "none",
     size |-> [width |-> 0, height |-> 0],
     swap_chain_desc |-> None,
     swap_chain |-> None,
     clear_color |-> Color_BLACK,
     submitted |-> <<>>,
     renders |-> 0,
     last |-> StateCall("none", None, "")]

\* device.create_swap_chain(&surface, &swap_chain_desc)
create_swap_chain(swap_chain_desc) ==
    [width |-> swap_chain_desc.width, height |-> swap_chain_desc.height,
     format |-> swap_chain_desc.format]

\* State::new: the adapter and device requests are unwrapped
State_new(win, env) ==
    IF ~env.adapter \/ ~env.device
    THEN [NoState EXCEPT !.phase = "panicked", !.last = StateCall("new", Some(env), "panic")]
    ELSE LET size == win.inner_size
             swap_chain_desc == [usage |-> "RENDER_ATTACHMENT",
                                 format |-> "preferred",
                                 width |-> size.width,
                                 height |-> size.height,
                                 present_mode |-> "Fifo"]
         IN [phase |-> "live",
             size |-> size,
             swap_chain_desc |-> Some(swap_chain_desc),
             swap_chain |-> Some(create_swap_chain(swap_chain_desc)),
             clear_color |-> Color_BLACK,
             submitted |-> <<>>,
             renders |-> 0,
             last |-> StateCall("new", Some(env), "Ok")]

\* State::refresh_size
State_refresh_size(s) ==
    LET swap_chain_desc == [Unwrap(s.swap_chain_desc) EXCEPT !.width = s.size.width,
                                                             !.height = s.size.height]
    IN [s EXCEPT !.swap_chain_desc = Some(swap_chain_desc),
                 !.swap_chain = Some(create_swap_chain(swap_chain_desc))]

\* variant: the new size is stored and the swap chain is left as it was
State_resize_without_refresh(s, new_size) ==
    [s EXCEPT !.size = new_size]

\* State::resize
State_resize(s, new_size) ==
    State_refresh_size([s EXCEPT !.size = new_size])

\* State::input: the colour components are the quotients position / size,
\* kept as the pairs <<dividend, divisor>>
State_input(s, event) ==
    IF event.kind = "CursorMoved"
    THEN [handled |-> TRUE,
          state |-> [s EXCEPT !.clear_color =
                        [r |-> <<event.position.x, s.size.width>>,
                         g |-> <<event.position.y, s.size.height>>,
                         b |-> "1.0", a |-> "1.0"]]]
    ELSE [handled |-> FALSE, state |-> s]

\* State::update
State_update(s) == s

\* State::render: get_current_frame()?, one pass clearing to clear_color,
\* one submit
State_render(s, outcome) ==
    IF outcome # "Success"
    THEN [result |-> outcome, state |-> s]
    ELSE LET command_buffer ==
                 [label |-> "Render Encoder",
                  pass |-> [label |-> "Render Pass",
                            color_load |-> <<"Clear", s.clear_color>>,
                            depth_stencil_attachment |-> None]]
         IN [result |-> "Ok",
             state |-> [s EXCEPT !.submitted = Append(@, command_buffer)]]

\* ---------------------------------------------------------------- actions

\* the record of a call: for redraw also the backend's answer to the frame
\* acquisition, the frame and command buffer, and the call it followed
Call(op, arg, result, error, log) ==
    [op |-> op, arg |-> arg, result |-> result, error |-> error, log |-> log,
     acquire |-> None, frame |-> None, cb |-> None, follows |-> ""]

Init ==
    /\ phase = "builder"
    /\ window \in [inner_size : WindowSizes]
    /\ builder = [clear_color |-> None, shader_path |-> None, texture_path |-> None,
                  vertices |-> None, indices |-> None]
    /\ renderer = NoRenderer
    /\ gpu = NoGpu
    /\ lastCall = Call("new", None, "Ok", "", <<>>)
    /\ nRedraws = 0
    /\ nOk = 0
    /\ requested = None
    /\ pipeline_builder = NoPipelineBuilder
    /\ state = NoState

WithClearColor(c) ==
    /\ phase = "builder"
    /\ builder' = [builder EXCEPT !.clear_color = c]
    /\ UNCHANGED <<phase, window, renderer, gpu, lastCall, nRedraws, nOk, requested, pipeline_builder,
                 state>>

WithShaderPath(p) ==
    /\ phase = "builder"
    /\ builder' = [builder EXCEPT !.shader_path = p]
    /\ UNCHANGED <<phase, window, renderer, gpu, lastCall, nRedraws, nOk, requested, pipeline_builder,
                 state>>

WithTexturePath(p) ==
    /\ phase = "builder"
    /\ builder' = [builder EXCEPT !.texture_path = p]
    /\ UNCHANGED <<phase, window, renderer, gpu, lastCall, nRedraws, nOk, requested, pipeline_builder,
                 state>>

WithVertices(v) ==
    /\ phase = "builder"
    /\ builder' = [builder EXCEPT !.vertices = v]
    /\ UNCHANGED <<phase, window, renderer, gpu, lastCall, nRedraws, nOk, requested, pipeline_builder,
                 state>>

WithIndices(i) ==
    /\ phase = "builder"
    /\ builder' = [builder EXCEPT !.indices = i]
    /\ UNCHANGED <<phase, window, renderer, gpu, lastCall, nRedraws, nOk, requested, pipeline_builder,
                 state>>

Build(env) ==
    /\ phase = "builder"
    /\ LET out == build(builder, window, env)
       IN /\ phase' = out.phase
          /\ renderer' = out.renderer
          /\ gpu' = out.gpu
          /\ lastCall' = Call("build", Some(env), out.result, out.error, out.log)
    /\ requested' = Some(window.inner_size)
    /\ UNCHANGED <<window, builder, nRedraws, nOk, pipeline_builder,
                 state>>

\* variant: the resize also gives the camera the aspect of the new size
resize_updates_camera(r, g, new_size) ==
    LET r1 == [r EXCEPT !.window_size = new_size,
                        !.camera.aspect = <<new_size.width, new_size.height>>]
        r2 == [r1 EXCEPT !.texture_depth_metadatas = TextureDepthMetadatas_new(r1.window_size)]
        upd == Surface_update(r2.surface, g, r2.window_size)
    IN [renderer |-> [r2 EXCEPT !.surface = upd.surface], gpu |-> upd.gpu]

\* variant: the depth attachment is rebuilt before the new size is stored,
\* so it is built at the previous size
resize_stale_depth(r, g, new_size) ==
    LET r1 == [r EXCEPT !.texture_depth_metadatas = TextureDepthMetadatas_new(r.window_size)]
        r2 == [r1 EXCEPT !.window_size = new_size]
        upd == Surface_update(r2.surface, g, r2.window_size)
    IN [renderer |-> [r2 EXCEPT !.surface = upd.surface], gpu |-> upd.gpu]

\* Renderer::resize
resize(r, g, new_size) ==
    LET r1 == [r EXCEPT !.window_size = new_size]
        r2 == [r1 EXCEPT !.texture_depth_metadatas = TextureDepthMetadatas_new(r1.window_size)]
        upd == Surface_update(r2.surface, g, r2.window_size)
    IN [renderer |-> [r2 EXCEPT !.surface = upd.surface], gpu |-> upd.gpu]

\* Renderer::refresh_current_size
refresh_current_size(r, g) ==
    LET upd == Surface_update(r.surface, g, r.window_size)
    IN [renderer |-> [r EXCEPT !.surface = upd.surface], gpu |-> upd.gpu]

Resize(new_size) ==
    /\ phase = "built"
    /\ LET out == resize(renderer, gpu, new_size)
       IN /\ renderer' = out.renderer
          /\ gpu' = out.gpu
    /\ lastCall' = Call("resize", Some(new_size), "Ok", "", <<"Configure">>)
    /\ requested' = Some(new_size)
    /\ UNCHANGED <<phase, window, builder, nRedraws, nOk, pipeline_builder,
                 state>>

RefreshCurrentSize ==
    /\ phase = "built"
    /\ LET out == refresh_current_size(renderer, gpu)
       IN /\ renderer' = out.renderer
          /\ gpu' = out.gpu
    /\ lastCall' = Call("refresh_current_size", None, "Ok", "", <<"Configure">>)
    /\ UNCHANGED <<phase, window, builder, nRedraws, nOk, requested, pipeline_builder,
                 state>>

ProcessCameraEvents(input) ==
    /\ phase = "built"
    /\ LET out == CameraController_process_events(renderer.camera_controller, input)
       IN /\ renderer' = [renderer EXCEPT !.camera_controller = out.cc]
          /\ lastCall' = Call("process_camera_events", None,
                              IF out.handled THEN "true" ELSE "false", "", <<>>)
    /\ UNCHANGED <<phase, window, builder, gpu, nRedraws, nOk, requested, pipeline_builder,
                 state>>

Redraw(outcome) ==
    /\ phase = "built"
    /\ nRedraws < MaxFrames
    /\ LET out == redraw(renderer, gpu, outcome)
       IN /\ phase' = IF out.result = "panic" THEN "panicked" ELSE phase
          /\ renderer' = out.renderer
          /\ gpu' = out.gpu
          /\ lastCall' = [Call("redraw", None, out.result, out.error, out.log)
                              EXCEPT !.acquire = Some(outcome), !.frame = out.frame,
                                     !.cb = out.cb, !.follows = lastCall.op]
          /\ nOk' = IF out.result = "Ok" THEN nOk + 1 ELSE nOk
    /\ nRedraws' = nRedraws + 1
    /\ UNCHANGED <<window, builder, requested, pipeline_builder,
                 state>>

Next ==
    \/ \E c \in {None} \cup {Some(x) : x \in ClearColors} : WithClearColor(c)
    \/ \E p \in {None} \cup {Some(x) : x \in ShaderPaths} : WithShaderPath(p)
    \/ \E p \in {None} \cup {Some(x) : x \in TexturePaths} : WithTexturePath(p)
    \/ \E v \in {None} \cup {Some(x) : x \in VertexSlices} : WithVertices(v)
    \/ \E i \in {None} \cup {Some(x) : x \in IndexSlices} : WithIndices(i)
    \/ \E env \in BuildEnvs : Build(env)
    \/ \E s \in Sizes : Resize(s)
    \/ RefreshCurrentSize
    \/ \E input \in KeyboardInputs : ProcessCameraEvents(input)
    \/ \E outcome \in AcquireOutcomes : Redraw(outcome)

Spec == Init /\ [][Next]_vars

\* ----------------------------------------------------------------- claims

Last(q) == q[Len(q)]

FullFrameLog == <<"UpdateCamera", "AcquireFrame", "Encode", "Submit", "Present">>
FailedAcquireLog == <<"UpdateCamera", "AcquireFrame">>

IsRedraw == lastCall.op = "redraw"
Acquired == IsRedraw /\ IsSome(lastCall.frame)

\* C1: every redraw() that acquires a frame submits exactly one command
\* buffer and presents that frame exactly once, so after k successful calls
\* there are exactly k submissions and k presents, one per acquired frame.
C1_OneSubmitOnePresentPerFrame ==
    /\ Len(gpu.submitted) = gpu.acquired
    /\ Len(gpu.presented) = gpu.acquired
    /\ nOk = gpu.acquired
    /\ \A i \in 1..gpu.acquired :
          /\ gpu.submitted[i].frame = i
          /\ gpu.presented[i].frame = i

C1_Witness ==
    /\ nOk = 2
    /\ nRedraws = 2
    /\ Len(gpu.submitted) = 2
    /\ Len(gpu.presented) = 2

\* C2: within one redraw() the steps run in the order UpdateCamera,
\* AcquireFrame, Encode, Submit, Present, none skipped once the frame is
\* acquired: the submission already sees this call's camera matrix and the
\* frame is presented only after the command buffer that renders it went in.
C2_StepOrder ==
    IsRedraw =>
        /\ Acquired =>
              /\ lastCall.log = FullFrameLog
              /\ Last(gpu.submitted).frame = Unwrap(lastCall.frame).id
              /\ Last(gpu.submitted).uniform = Some(update_view_proj(renderer.camera))
              /\ Last(gpu.presented) = [frame |-> Unwrap(lastCall.frame).id, rendered |-> TRUE]
              /\ renderer.queue.pending = <<>>
        /\ ~Acquired =>
              /\ lastCall.log = FailedAcquireLog
              /\ Last(renderer.queue.pending).data = update_view_proj(renderer.camera)

C2_Witness ==
    /\ Acquired
    /\ lastCall.result = "Ok"
    /\ renderer.camera_controller.is_forward_pressed
    /\ renderer.camera.eye > 0
    /\ Len(gpu.presented) = 1

C4_NoIndexBufferNoDraw ==
    (Acquired /\ phase # "builder" /\ IsNone(renderer.index_buffer)) =>
        /\ lastCall.result = "Ok"
        /\ IsSome(lastCall.cb)
        /\ LET pass == Unwrap(lastCall.cb).pass
           IN /\ pass.color_view = Unwrap(lastCall.frame).id
              /\ pass.color_load = <<"Clear", renderer.clear_color>>
              /\ pass.depth_view = renderer.texture_depth_metadatas
              /\ pass.depth_load = <<"Clear", "1.0">>
              /\ pass.draws = <<>>
        /\ Last(gpu.submitted).draws = 0
        /\ Last(gpu.submitted).frame = Unwrap(lastCall.frame).id
        /\ Last(gpu.presented).frame = Unwrap(lastCall.frame).id

C4_Witness ==
    /\ Acquired
    /\ lastCall.result = "Ok"
    /\ IsNone(renderer.index_buffer)
    /\ IsNone(renderer.vertex_buffer)
    /\ Unwrap(lastCall.cb).pass.draws = <<>>
    /\ Len(gpu.presented) = 1

\* C5 as stated: when the acquisition reports Outdated or Lost, the Surface
\* is reconfigured and the frame is asked for a second time before the
\* condition is propagated.
C5_ReconfigureAndRetry ==
    (IsRedraw /\ lastCall.acquire \in {Some("Outdated"), Some("Lost")}) =>
        /\ \E i \in 1..Len(lastCall.log) : lastCall.log[i] = "Configure"
        /\ Cardinality({i \in 1..Len(lastCall.log) : lastCall.log[i] = "AcquireFrame"}) = 2

\* C5 amended: when the acquisition reports Outdated or Lost, redraw()
\* returns that error to its caller at once: one acquisition, no
\* reconfiguration, nothing submitted or presented, and the Renderer stays
\* usable, so reconfiguring and retrying are the caller's to do.
C5_OutdatedLostReturned ==
    [][(nRedraws' = nRedraws + 1
        /\ lastCall'.acquire \in {Some("Outdated"), Some("Lost")}) =>
          /\ lastCall'.result = "Err"
          /\ Some(lastCall'.error) = lastCall'.acquire
          /\ lastCall'.log = FailedAcquireLog
          /\ renderer'.surface = renderer.surface
          /\ gpu'.surface_config = gpu.surface_config
          /\ gpu'.submitted = gpu.submitted
          /\ gpu'.presented = gpu.presented
          /\ phase' = "built"]_vars

C5_Witness ==
    /\ IsRedraw
    /\ lastCall.acquire = Some("Lost")
    /\ lastCall.result = "Err"
    /\ phase = "built"
    /\ nRedraws = 2
    /\ nOk = 1

\* C6: when the acquisition reports OutOfMemory, redraw() returns exactly
\* that error after a single acquisition: not caught, converted or retried.
C6_OutOfMemoryPropagated ==
    (IsRedraw /\ lastCall.acquire = Some("OutOfMemory")) =>
        /\ lastCall.result = "Err"
        /\ lastCall.error = "OutOfMemory"
        /\ lastCall.log = FailedAcquireLog
        /\ IsNone(lastCall.frame)
        /\ IsNone(lastCall.cb)

C6_Witness ==
    /\ IsRedraw
    /\ lastCall.acquire = Some("OutOfMemory")
    /\ lastCall.error = "OutOfMemory"

\* C7: after build() and any resize() / redraw() calls, the stored window
\* size, the depth attachment's size and the Surface configuration's
\* width/height all equal the size last asked for (the latest resize
\* argument, or the window's size at build).
C7_SizesAgree ==
    phase = "built" =>
        LET size == Unwrap(requested)
        IN /\ renderer.window_size = size
           /\ renderer.texture_depth_metadatas.width = size.width
           /\ renderer.texture_depth_metadatas.height = size.height
           /\ renderer.surface.configuration.width = size.width
           /\ renderer.surface.configuration.height = size.height
           /\ Unwrap(gpu.surface_config) = renderer.surface.configuration

C7_Witness ==
    /\ phase = "built"
    /\ lastCall.op = "resize"
    /\ nRedraws = 1
    /\ requested = Some([width |-> 0, height |-> MaxSide])
    /\ renderer.window_size # window.inner_size

\* C8: a redraw() that directly follows resize(newSize) does not panic, and
\* the render pass it encodes uses a depth attachment of size newSize.
C8_ResizeThenRedraw ==
    (IsRedraw /\ lastCall.follows = "resize") =>
        /\ lastCall.result # "panic"
        /\ phase = "built"
        /\ Acquired =>
              /\ IsSome(lastCall.cb)
              /\ Unwrap(lastCall.cb).pass.depth_view.width = Unwrap(requested).width
              /\ Unwrap(lastCall.cb).pass.depth_view.height = Unwrap(requested).height

C8_Witness ==
    /\ Acquired
    /\ lastCall.follows = "resize"
    /\ lastCall.result = "Ok"
    /\ requested = Some([width |-> MaxSide, height |-> 0])
    /\ Unwrap(lastCall.cb).pass.depth_view.width = MaxSide

\* ceil(log2(x)) for x > 0
CeilLog2(x) == IF Pow2(log2(x)) = x THEN log2(x) ELSE log2(x) + 1

\* the largest exponent the cache is specified to cover
MaxExponent == CeilLog2(MAX_TEXTURE_DIMENSION_2D)

\* the lookup the code performs on a cache table: table[w][h]
CacheLookup(table, w, h) ==
    IF InBounds(table, w) /\ InBounds(At(table, w), h)
    THEN Some(At(At(table, w), h))
    ELSE None

\* C9: after build the cache has ceil(log2(max_texture_dimension_2d)) + 1
\* rows and as many columns, and the entry at [w][h] measures 2^w by 2^h.
C9_CacheShape ==
    phase = "built" =>
        /\ Len(renderer.texture_image_metadatas) = MaxExponent + 1
        /\ Len(renderer.texture_bind_group_metadatas) = MaxExponent + 1
        /\ \A w \in 0..MaxExponent :
              /\ Len(At(renderer.texture_image_metadatas, w)) = MaxExponent + 1
              /\ Len(At(renderer.texture_bind_group_metadatas, w)) = MaxExponent + 1
              /\ \A h \in 0..MaxExponent :
                    /\ At(At(renderer.texture_image_metadatas, w), h).width = Pow2(w)
                    /\ At(At(renderer.texture_image_metadatas, w), h).height = Pow2(h)

\* C10: for every power-of-two pair within the specified bound a cache
\* lookup yields an entry, and no resize(), redraw() or texture write
\* replaces or removes an entry.
C10_LookupSucceeds ==
    phase = "built" =>
        \A w \in 0..MaxExponent : \A h \in 0..MaxExponent :
            /\ IsSome(CacheLookup(renderer.texture_image_metadatas, w, h))
            /\ IsSome(CacheLookup(renderer.texture_bind_group_metadatas, w, h))

\* ------------------------------------------------------- claims, build()

IsBuild == lastCall.op = "build"
BuildEnv == Unwrap(lastCall.arg)

\* the build got past the acquisition of surface, adapter, device and queue
Acquisitions == IsBuild /\ BuildEnv.adapter /\ BuildEnv.device

\* the texture file the builder names, when it loads
HasTexture ==
    IsSome(builder.texture_path) /\ IsSome(TextureLoad(Unwrap(builder.texture_path)))
TheTexture == Unwrap(TextureLoad(Unwrap(builder.texture_path)))

IsPow2(x) == x > 0 /\ Pow2(log2(x)) = x

\* a size the cache is specified to hold
SupportedSize(w, h) ==
    /\ IsPow2(w) /\ IsPow2(h)
    /\ w <= MAX_TEXTURE_DIMENSION_2D /\ h <= MAX_TEXTURE_DIMENSION_2D

TextureWrites(writes) == {i \in 1..Len(writes) : writes[i].kind = "texture"}

TriangleBuilder ==
    /\ builder.shader_path = Some("shader.wgsl")
    /\ builder.texture_path = Some("tex256.png")
    /\ builder.vertices = Some(3)
    /\ builder.indices = Some(3)

\* C12 as stated: building with a shader, a 256x256 texture and a 3-vertex /
\* 3-index triangle succeeds, and a redraw() on the result that acquires its
\* frame submits once and presents once with bind group 0 taken from the
\* cache entry (8, 8).
C12_EndToEnd ==
    /\ (Acquisitions /\ TriangleBuilder) =>
          /\ lastCall.result = "Ok"
          /\ phase = "built"
          /\ IsSome(renderer.renderer_pipeline)
    /\ (Acquired /\ TriangleBuilder) =>
          /\ lastCall.result = "Ok"
          /\ Len(gpu.submitted) = Len(gpu.presented)
          /\ Unwrap(lastCall.cb).pass.bind_groups[1]
                = At(At(renderer.texture_bind_group_metadatas, 8), 8).bind_group

\* C13 as stated: for every supported texture size, the build with a shader
\* and that texture succeeds, the payload goes to the entry
\* (log2 width, log2 height), and every redraw() binds that entry's bind
\* group as group 0.
C13_BindGroupOfConfiguredTexture ==
    /\ (Acquisitions /\ HasTexture /\ builder.shader_path = Some("shader.wgsl")
        /\ TheTexture.rgba /\ SupportedSize(TheTexture.width, TheTexture.height)) =>
          /\ lastCall.result = "Ok"
          /\ \E i \in TextureWrites(renderer.queue.pending) :
                renderer.queue.pending[i].target = <<TheTexture.width, TheTexture.height>>
    /\ (Acquired /\ HasTexture /\ IsSome(renderer.renderer_pipeline)) =>
          Unwrap(lastCall.cb).pass.bind_groups[1]
              = <<"texture_bg", TheTexture.width, TheTexture.height>>

\* C14 as stated: a build with a readable shader yields a pipeline whose
\* layout is [texture, camera], and every redraw() of it binds the texture
\* group at index 0 and the camera group at index 1, the texture entry being
\* the one whose layout the pipeline was built with.
C14_LayoutOrder ==
    /\ (Acquisitions /\ builder.shader_path = Some("shader.wgsl")
        /\ IsNone(builder.texture_path)) =>
          /\ lastCall.result = "Ok"
          /\ IsSome(renderer.renderer_pipeline)
          /\ Unwrap(renderer.renderer_pipeline).layout[2]
                = renderer.camera_metadatas.bind_group_layout
          /\ Unwrap(renderer.renderer_pipeline).layout[1][1] = "texture_bgl"
    /\ (Acquired /\ IsSome(renderer.renderer_pipeline)) =>
          LET groups == Unwrap(lastCall.cb).pass.bind_groups
              layout == Unwrap(renderer.renderer_pipeline).layout
          IN /\ Len(groups) = 2
             /\ groups[1][1] = "texture_bg"
             /\ <<groups[1][2], groups[1][3]>> = <<layout[1][2], layout[1][3]>>
             /\ groups[2] = renderer.camera_metadatas.bind_group

\* C15: a failed Surface/Adapter acquisition makes build() return
\* SurfaceAdapterRequest, a failed Device request makes it return
\* DeviceRequest; in both cases no later step runs, the backend is untouched
\* and no Renderer exists; a Renderer exists only after a build whose every
\* step succeeded.
C15_AcquisitionFailureIsFatal ==
    /\ (IsBuild /\ ~BuildEnv.adapter) =>
          /\ lastCall.result = "Err"
          /\ lastCall.error = "SurfaceAdapterRequest"
          /\ lastCall.log = <<"Surface+Adapter">>
          /\ phase = "failed" /\ renderer = NoRenderer /\ gpu = NoGpu
    /\ (IsBuild /\ BuildEnv.adapter /\ ~BuildEnv.device) =>
          /\ lastCall.result = "Err"
          /\ lastCall.error = "DeviceRequest"
          /\ lastCall.log = <<"Surface+Adapter", "Device+Queue">>
          /\ phase = "failed" /\ renderer = NoRenderer /\ gpu = NoGpu
    /\ IsBuild => ((renderer # NoRenderer) <=> (lastCall.result = "Ok"))
    /\ (IsBuild /\ lastCall.result = "Ok") => Acquisitions
    /\ (renderer # NoRenderer) => phase \in {"built", "panicked"}
    /\ phase \in {"builder", "failed"} => renderer = NoRenderer

C15_Witness ==
    /\ IsBuild
    /\ BuildEnv.adapter /\ ~BuildEnv.device
    /\ IsSome(builder.shader_path)
    /\ lastCall.error = "DeviceRequest"
    /\ renderer = NoRenderer

\* the assembly steps of build(), in their order
BuildSteps ==
    <<"Surface+Adapter", "Device+Queue", "ConfigureSurface", "Camera", "TextureCache",
      "Pipeline", "TexturePayload", "VertexIndexBuffers", "InstanceGrid">>

StepIndex(s) == CHOOSE i \in 1..Len(BuildSteps) : BuildSteps[i] = s

\* every step that ran is a build step and the steps ran in the fixed order
InBuildOrder(log) ==
    /\ \A i \in 1..Len(log) : \E j \in 1..Len(BuildSteps) : BuildSteps[j] = log[i]
    /\ \A i \in 1..(Len(log) - 1) : StepIndex(log[i]) < StepIndex(log[i + 1])

Ran(log, s) == \E i \in 1..Len(log) : log[i] = s

\* C16: the steps of build() run in the fixed order (the optional ones only
\* when the builder asks for them), and a step that fails is the last one to
\* run: an unreadable shader stops the build at the pipeline, a failed
\* texture load or lookup stops it at the texture payload, and a failed
\* acquisition stops it at once.
C16_FixedOrderAbortOnFailure ==
    IsBuild =>
      /\ InBuildOrder(lastCall.log)
      /\ lastCall.log[1] = "Surface+Adapter"
      /\ Acquisitions =>
            /\ SubSeq(lastCall.log, 1, 5) = SubSeq(BuildSteps, 1, 5)
            /\ Ran(lastCall.log, "Pipeline")
                  <=> IsSome(builder.shader_path)
      /\ (Acquisitions /\ builder.shader_path = Some("missing.wgsl")) =>
            /\ lastCall.result = "panic"
            /\ Last(lastCall.log) = "Pipeline"
      /\ (Acquisitions /\ IsNone(builder.shader_path)
          /\ builder.texture_path = Some("missing.png")) =>
            /\ lastCall.result = "panic"
            /\ Last(lastCall.log) = "TexturePayload"
      /\ lastCall.result = "Ok" =>
            /\ Ran(lastCall.log, "VertexIndexBuffers")
            /\ Ran(lastCall.log, "TexturePayload") <=> IsSome(builder.texture_path)
            /\ Ran(lastCall.log, "InstanceGrid") <=> IsSome(builder.vertices)
      /\ lastCall.result # "Ok" =>
            /\ renderer = NoRenderer
            /\ ~Ran(lastCall.log, "VertexIndexBuffers")
            /\ ~Ran(lastCall.log, "InstanceGrid")
            /\ lastCall.result = "Err" =>
                  Last(lastCall.log) \in {"Surface+Adapter", "Device+Queue"}
            /\ lastCall.result = "panic" =>
                  Last(lastCall.log) \in {"Pipeline", "TexturePayload"}

C16_Witness ==
    /\ IsBuild
    /\ Acquisitions
    /\ builder.shader_path = Some("missing.wgsl")
    /\ IsSome(builder.texture_path)
    /\ IsSome(builder.vertices)
    /\ lastCall.result = "panic"
    /\ lastCall.log = SubSeq(BuildSteps, 1, 6)

\* C17 as stated: when no format is configured and the surface reports no
\* preferred format, build() fails with a surface-format error and yields
\* no Surface and no Renderer.
C17_NoFormatIsFatal ==
    (Acquisitions /\ BuildEnv.surface_format = None) =>
        /\ lastCall.result = "Err"
        /\ lastCall.error = "NoPreferredFormat"
        /\ renderer = NoRenderer
        /\ gpu.surface_config = None

\* a texture the Queue cannot take: no RGBA8 bytes, or a size outside the cache
Unwritable(t) == ~t.rgba \/ ~SupportedSize(t.width, t.height)

\* C18 as stated: a texture write that cannot yield RGBA8 bytes, or whose
\* texture has an unsupported size, is a typed failure that enqueues nothing
\* and does not crash: the Renderer is built and goes on without the texture.
C18_TypedRecoverableTextureFailure ==
    (Acquisitions /\ IsNone(builder.shader_path) /\ HasTexture /\ Unwritable(TheTexture)) =>
        /\ lastCall.result # "panic"
        /\ phase = "built"
        /\ TextureWrites(renderer.queue.pending) = {}

\* C19: the grid has N * N = 100 instances in row-major order (z outer,
\* x inner); instance (x, z) sits at (x, 0, z) - (N/2, 0, N/2), here in half
\* units; the one at the origin (x = z = 5) has the identity rotation, every
\* other one the rotation by PI/4 about its normalized position; every
\* Renderer built with vertices carries this same grid and a buffer of it.
C19_InstanceGrid ==
    LET N == NUM_INSTANCES_PER_ROW
    IN (renderer # NoRenderer) =>
        /\ IsSome(renderer.instances) <=> IsSome(builder.vertices)
        /\ IsSome(renderer.instances) <=> IsSome(renderer.instances_buffer)
        /\ IsSome(renderer.instances) =>
            LET instances == Unwrap(renderer.instances)
            IN /\ N = 10
               /\ Len(instances) = 100
               /\ \A z \in 0..(N - 1) : \A x \in 0..(N - 1) :
                     LET i == instances[z * N + x + 1]
                     IN /\ i.position = [x2 |-> 2 * x - N, y2 |-> 0, z2 |-> 2 * z - N]
                        /\ i.rotation = IF x = 5 /\ z = 5
                                        THEN [axis |-> "unit_z", angle |-> "0"]
                                        ELSE [axis |-> <<"normalize", i.position>>,
                                              angle |-> "PI/4"]
               /\ Unwrap(renderer.instances_buffer).len = 100

C19_Witness ==
    /\ phase = "built"
    /\ IsSome(renderer.instances)
    /\ Len(Unwrap(renderer.instances)) = 100
    /\ Unwrap(renderer.instances)[56].rotation.angle = "0"
    /\ Unwrap(renderer.instances)[1].position = [x2 |-> -10, y2 |-> 0, z2 |-> -10]

\* ------------------------------------- the RenderPipelineBuilder on its own

Unbuilt == pipeline_builder.state \in {"Empty", "VertexSet", "FragmentSet"}

\* RenderPipelineBuilder::new(vertex): Empty -> VertexSet
PipelineNew(vertex) ==
    /\ pipeline_builder.state = "Empty"
    /\ LET b == RenderPipelineBuilder_new(Some(vertex))
       IN pipeline_builder' = [pipeline_builder EXCEPT !.builder = b,
                                                       !.state = BuilderStage(b)]
    /\ UNCHANGED <<rendererVars, state>>

\* with_fragment(fragment): VertexSet -> FragmentSet
PipelineWithFragment(fragment) ==
    /\ pipeline_builder.state = "VertexSet"
    /\ LET b == RenderPipelineBuilder_with_fragment(pipeline_builder.builder, fragment)
       IN pipeline_builder' = [pipeline_builder EXCEPT !.builder = b,
                                                       !.state = BuilderStage(b)]
    /\ UNCHANGED <<rendererVars, state>>

\* with_layout(layout): the stage stays
PipelineWithLayout(layout) ==
    /\ pipeline_builder.state \in {"VertexSet", "FragmentSet"}
    /\ IsNone(pipeline_builder.builder.layout)
    /\ LET b == RenderPipelineBuilder_with_layout(pipeline_builder.builder, layout)
       IN pipeline_builder' = [pipeline_builder EXCEPT !.builder = b,
                                                       !.state = BuilderStage(b)]
    /\ UNCHANGED <<rendererVars, state>>

\* build(): terminal
PipelineBuild ==
    /\ Unbuilt
    /\ LET out == RenderPipelineBuilder_build(pipeline_builder.builder)
       IN pipeline_builder' = [pipeline_builder EXCEPT
                                  !.state = IF out.ok THEN "Built" ELSE "Failed",
                                  !.pipeline = out.pipeline]
    /\ UNCHANGED <<rendererVars, state>>

\* a frame binds the built pipeline to its render pass
PipelineFrame ==
    /\ pipeline_builder.state = "Built"
    /\ Len(pipeline_builder.bound) < MaxFrames
    /\ LET pass == set_pipeline([pipeline |-> None], Unwrap(pipeline_builder.pipeline))
       IN pipeline_builder' = [pipeline_builder EXCEPT !.bound = Append(@, pass.pipeline)]
    /\ UNCHANGED <<rendererVars, state>>

PipelineNext ==
    \/ \E vertex \in VertexStates : PipelineNew(vertex)
    \/ \E fragment \in FragmentStates : PipelineWithFragment(fragment)
    \/ \E layout \in PipelineLayouts : PipelineWithLayout(layout)
    \/ PipelineBuild
    \/ PipelineFrame

PipelineSpec == Init /\ [][PipelineNext]_vars

\* the stages agree with what the builder holds, the build fails exactly
\* without a vertex stage, and every frame has bound the pipeline as built
C20_Stages ==
    LET pb == pipeline_builder
    IN /\ pb.state \in {"Empty", "VertexSet", "FragmentSet", "Built", "Failed"}
       /\ pb.state \in {"Empty", "Failed"} <=> IsNone(pb.builder.vertex)
       /\ pb.state = "VertexSet" => IsNone(pb.builder.fragment)
       /\ pb.state = "FragmentSet" => IsSome(pb.builder.fragment)
       /\ pb.state = "Failed" => IsNone(pb.pipeline) /\ IsNone(pb.builder.fragment)
       /\ pb.state = "Built" <=> IsSome(pb.pipeline)
       /\ pb.state = "Built" =>
             /\ Unwrap(pb.pipeline).vertex = Unwrap(pb.builder.vertex)
             /\ Unwrap(pb.pipeline).fragment = pb.builder.fragment
       /\ \A i \in 1..Len(pb.bound) : pb.bound[i] = pb.pipeline

\* the stages are passed in order, and nothing follows Built but frames that
\* leave the pipeline as it is
C20_Step ==
    LET pb == pipeline_builder
        pb2 == pipeline_builder'
    IN /\ pb.state = "Empty" => pb2.state \in {"Empty", "VertexSet", "Failed"}
       /\ pb.state = "VertexSet" => pb2.state \in {"VertexSet", "FragmentSet", "Built"}
       /\ pb.state = "FragmentSet" => pb2.state \in {"FragmentSet", "Built"}
       /\ pb.state \in {"Built", "Failed"} =>
             /\ pb2.state = pb.state
             /\ pb2.pipeline = pb.pipeline
             /\ pb2.builder = pb.builder

StateNew(env) ==
    /\ state.phase = "none"
    /\ state' = State_new(window, env)
    /\ UNCHANGED <<rendererVars, pipeline_builder>>

StateRefreshSize ==
    /\ state.phase = "live"
    /\ state' = [State_refresh_size(state) EXCEPT
                    !.last = StateCall("refresh_size", None, "Ok")]
    /\ UNCHANGED <<rendererVars, pipeline_builder>>

StateResize(new_size) ==
    /\ state.phase = "live"
    /\ state' = [State_resize(state, new_size) EXCEPT
                    !.last = StateCall("resize", Some(new_size), "Ok")]
    /\ UNCHANGED <<rendererVars, pipeline_builder>>

StateInput(event) ==
    /\ state.phase = "live"
    /\ LET out == State_input(state, event)
       IN state' = [out.state EXCEPT
                       !.last = StateCall("input", Some(event),
                                          IF out.handled THEN "true" ELSE "false")]
    /\ UNCHANGED <<rendererVars, pipeline_builder>>

StateUpdate ==
    /\ state.phase = "live"
    /\ state' = [State_update(state) EXCEPT !.last = StateCall("update", None, "Ok")]
    /\ UNCHANGED <<rendererVars, pipeline_builder>>

StateRender(outcome) ==
    /\ state.phase = "live"
    /\ state.renders < MaxFrames
    /\ LET out == State_render(state, outcome)
       IN state' = [out.state EXCEPT
                       !.renders = @ + 1,
                       !.last = StateCall("render", Some(outcome), out.result)]
    /\ UNCHANGED <<rendererVars, pipeline_builder>>

StateNext ==
    \/ \E env \in StateEnvs : StateNew(env)
    \/ StateRefreshSize
    \/ \E new_size \in Sizes : StateResize(new_size)
    \/ \E event \in WindowEvents : StateInput(event)
    \/ StateUpdate
    \/ \E outcome \in FrameOutcomes : StateRender(outcome)

StateSpec == Init /\ [][StateNext]_vars

\* ------------------------------------------------- claims, Queue and frames

\* the step is a call of redraw()
RedrawStep == nRedraws' = nRedraws + 1

\* the matrix of the Renderer's camera as it is now
CurrentMatrix == update_view_proj(renderer.camera)

\* after a redraw() that went through, the submission has seen the matrix of
\* the camera as that call left it and no write is pending; after one that
\* failed to acquire, the write of that matrix is the last one pending
C21_State ==
    (IsRedraw /\ phase = "built") =>
        /\ lastCall.result = "Ok" =>
              /\ Last(gpu.submitted).uniform = Some(CurrentMatrix)
              /\ gpu.uniform = Some(CurrentMatrix)
              /\ renderer.queue.pending = <<>>
        /\ lastCall.result = "Err" =>
              /\ renderer.queue.pending # <<>>
              /\ Last(renderer.queue.pending).kind = "buffer"
              /\ Last(renderer.queue.pending).data = CurrentMatrix

\* the uniform the GPU sees changes only in a step that submits
C21_Step ==
    (phase = "built" /\ gpu'.uniform # gpu.uniform) =>
        Len(gpu'.submitted) = Len(gpu.submitted) + 1

\* C21: the camera write of redraw() is deferred: the uniform the GPU sees
\* keeps its value until a submission, the pending writes are applied at the
\* start of that submission, and the command buffer a redraw() submits sees
\* the matrix computed in that same redraw().
C21_DeferredUniformWrite == []C21_State /\ [][C21_Step]_vars

C21_Witness ==
    /\ IsRedraw /\ phase = "built"
    /\ lastCall.result = "Ok"
    /\ renderer.camera.eye > 0
    /\ Last(gpu.submitted).uniform = Some(CurrentMatrix)
    /\ Len(gpu.submitted) = 1

IsPrefix(s, t) == Len(s) <= Len(t) /\ SubSeq(t, 1, Len(s)) = s

\* the backend's list of submissions is in the order of the calls: the i-th
\* entry is the i-th submission, frames and camera matrices follow the calls
C22_State ==
    (phase \in {"built", "panicked"} /\ renderer # NoRenderer) =>
        /\ \A i \in 1..Len(gpu.submitted) : gpu.submitted[i].id = i
        /\ \A i \in 1..(Len(gpu.submitted) - 1) :
              /\ gpu.submitted[i].frame < gpu.submitted[i + 1].frame
              /\ Unwrap(gpu.submitted[i].uniform).eye
                    <= Unwrap(gpu.submitted[i + 1].uniform).eye
        /\ Len(gpu.submitted) = nOk
        /\ (gpu.submitted # <<>> /\ IsRedraw /\ lastCall.result = "Ok") =>
              /\ renderer.queue.pending = <<>>
              /\ Last(gpu.submitted).frame = Unwrap(lastCall.frame).id

\* a step only ever adds at the end of what was submitted and applied
C22_Step ==
    /\ IsPrefix(gpu.submitted, gpu'.submitted)
    /\ IsPrefix(gpu.textures, gpu'.textures)
    /\ RedrawStep /\ lastCall'.result = "Ok" =>
          /\ Len(gpu'.submitted) = Len(gpu.submitted) + 1
          /\ Len(gpu'.textures)
                = Len(gpu.textures) + Cardinality(TextureWrites(renderer.queue.pending))

C23_GridAlwaysBuilt ==
    (phase = "built") =>
        /\ IsSome(renderer.instances)
        /\ IsSome(renderer.instances_buffer)
        /\ Len(Unwrap(renderer.instances)) = NUM_INSTANCES_PER_ROW * NUM_INSTANCES_PER_ROW

\* a redraw() that fails to acquire: nothing reaches the backend, the camera
\* has moved and its write has joined the pending ones; a redraw() that goes
\* through applies everything pending
C24_Step ==
    /\ (RedrawStep /\ lastCall'.result = "Err") =>
          /\ lastCall'.error \in SurfaceErrors
          /\ lastCall'.acquire = Some(lastCall'.error)
          /\ lastCall'.cb = None /\ lastCall'.frame = None
          /\ gpu'.submitted = gpu.submitted
          /\ gpu'.presented = gpu.presented
          /\ gpu'.uniform = gpu.uniform
          /\ renderer'.camera
                = CameraController_update_camera(renderer.camera_controller, renderer.camera)
          /\ renderer'.queue.pending
                = Append(renderer.queue.pending,
                         [kind |-> "buffer", target |-> renderer.camera_metadatas.buffer,
                          data |-> update_view_proj(renderer'.camera)])
    /\ (RedrawStep /\ lastCall'.result = "Ok") =>
          /\ renderer'.queue.pending = <<>>
          /\ gpu'.uniform = Some(update_view_proj(renderer'.camera))
          /\ renderer'.camera
                = CameraController_update_camera(renderer.camera_controller, renderer.camera)

\* C24: a redraw() that returns an acquisition error (Outdated, Lost,
\* Timeout, OutOfMemory) submits and presents nothing, and the camera move
\* and the camera write it scheduled before the acquisition stay: the write
\* remains pending and the next successful submission applies it.
C24_FailedAcquireKeepsCameraWrite == [][C24_Step]_vars

C24_Witness ==
    /\ IsRedraw /\ lastCall.result = "Ok"
    /\ lastCall.follows = "redraw"
    /\ nRedraws = 2 /\ nOk = 1
    /\ renderer.camera.eye = 2 * renderer.camera_controller.speed
    /\ gpu.uniform = Some(CurrentMatrix)
    /\ Len(gpu.submitted) = 1

\* C25 as stated: the index format redraw() binds the index buffer with has
\* the element width of the index data uploaded at build.
C25_IndexWidthsAgree ==
    (phase = "built" /\ IsSome(renderer.index_buffer)) =>
        Unwrap(renderer.index_buffer).element_bits = INDEX_FORMAT_BITS

\* C26 as stated: num_indices is the number of indices supplied and is 0
\* exactly when there is no index buffer; a Renderer built with a shader,
\* vertices and indices draws, and each of its frames issues exactly one
\* indexed draw over [0, num_indices) and [0, number of instances).
C26_NumIndicesAndDrawRanges ==
    /\ (phase = "built") =>
          /\ renderer.num_indices = UnwrapOr(builder.indices, 0)
          /\ (renderer.num_indices = 0) <=> IsNone(renderer.index_buffer)
    /\ (Acquisitions /\ builder.shader_path = Some("shader.wgsl")
        /\ IsNone(builder.texture_path)
        /\ IsSome(builder.vertices) /\ IsSome(builder.indices)) =>
          lastCall.result = "Ok"
    /\ (Acquired /\ lastCall.result = "Ok" /\ IsSome(renderer.renderer_pipeline)
        /\ IsSome(renderer.index_buffer)) =>
          Unwrap(lastCall.cb).pass.draws
              = <<[indices |-> <<0, renderer.num_indices>>,
                   base_vertex |-> 0,
                   instances |-> <<0, Len(Unwrap(renderer.instances))>>]>>

\* ------------------------------------------- claims, passes and resizing

\* C27: a Renderer built without a shader path has no pipeline, and each of
\* its redraw() calls that acquires a frame begins one render pass on that
\* frame, colour cleared to the configured colour (white when none was
\* configured), depth cleared to 1.0, binds no pipeline, bind group or
\* buffer, draws nothing, and still submits one command buffer and presents.
C27_ClearOnlyPassWithoutPipeline ==
    /\ (phase = "built" /\ IsNone(builder.shader_path)) =>
          /\ IsNone(renderer.renderer_pipeline)
          /\ renderer.clear_color = UnwrapOr(builder.clear_color, "WHITE")
    /\ (Acquired /\ IsNone(builder.shader_path)) =>
          /\ lastCall.result = "Ok"
          /\ lastCall.log = FullFrameLog
          /\ LET pass == Unwrap(lastCall.cb).pass
             IN /\ pass.color_view = Unwrap(lastCall.frame).id
                /\ pass.color_load = <<"Clear", UnwrapOr(builder.clear_color, "WHITE")>>
                /\ pass.depth_view = renderer.texture_depth_metadatas
                /\ pass.depth_load = <<"Clear", "1.0">>
                /\ pass.stencil_ops = None
                /\ pass.pipeline = None
                /\ pass.bind_groups = <<>>
                /\ pass.vertex_buffers = <<>>
                /\ pass.index_buffer = None
                /\ pass.draws = <<>>
          /\ Len(gpu.submitted) = nOk /\ Len(gpu.presented) = nOk
          /\ Last(gpu.submitted).frame = Unwrap(lastCall.frame).id
          /\ Last(gpu.submitted).draws = 0
          /\ Last(gpu.presented).frame = Unwrap(lastCall.frame).id

C27_Witness ==
    /\ Acquired /\ lastCall.result = "Ok"
    /\ IsNone(builder.shader_path)
    /\ IsNone(builder.clear_color)
    /\ IsSome(renderer.vertex_buffer) /\ IsSome(renderer.index_buffer)
    /\ Unwrap(lastCall.cb).pass.color_load = <<"Clear", "WHITE">>
    /\ Unwrap(lastCall.cb).pass.vertex_buffers = <<>>

\* the step is a call of resize()
ResizeStep == phase = "built" /\ lastCall'.op = "resize" /\ nRedraws' = nRedraws

\* a resize() writes the new size into window_size, the depth attachment and
\* the width and height of the Surface configuration, and nothing else
C28_Step ==
    ResizeStep =>
        LET new_size == Unwrap(lastCall'.arg)
        IN /\ renderer' =
                [renderer EXCEPT
                    !.window_size = new_size,
                    !.texture_depth_metadatas = TextureDepthMetadatas_new(new_size),
                    !.surface.configuration.width = new_size.width,
                    !.surface.configuration.height = new_size.height]
           /\ renderer'.surface.format = renderer.surface.format
           /\ renderer'.surface.configuration.usage = renderer.surface.configuration.usage
           /\ renderer'.surface.configuration.present_mode
                 = renderer.surface.configuration.present_mode
           /\ renderer'.camera = renderer.camera
           /\ renderer'.camera.aspect = <<window.inner_size.width, window.inner_size.height>>
           /\ renderer'.camera_controller = renderer.camera_controller
           /\ renderer'.texture_image_metadatas = renderer.texture_image_metadatas
           /\ renderer'.texture_bind_group_metadatas = renderer.texture_bind_group_metadatas
           /\ renderer'.renderer_pipeline = renderer.renderer_pipeline
           /\ renderer'.vertex_buffer = renderer.vertex_buffer
           /\ renderer'.index_buffer = renderer.index_buffer
           /\ renderer'.instances_buffer = renderer.instances_buffer
           /\ renderer'.num_indices = renderer.num_indices
           /\ renderer'.clear_color = renderer.clear_color
           /\ renderer'.queue = renderer.queue
           /\ gpu' = [gpu EXCEPT !.surface_config = Some(renderer'.surface.configuration)]
           /\ gpu'.submitted = gpu.submitted /\ gpu'.presented = gpu.presented

\* C28: resize(newSize) changes the stored window size, the depth attachment
\* and the width and height of the Surface configuration, and nothing else:
\* format, usage and present mode, the camera with the aspect it got from the
\* window at build, the controller, the texture cache, the pipeline, the
\* buffers, num_indices and the clear colour stay, and nothing is submitted
\* or presented.
C28_ResizeFrame == [][C28_Step]_vars

C28_Witness ==
    /\ phase = "built"
    /\ lastCall.op = "resize"
    /\ renderer.window_size = Unwrap(lastCall.arg)
    /\ renderer.window_size # window.inner_size
    /\ renderer.window_size.width > 0 /\ renderer.window_size.height > 0
    /\ renderer.camera.aspect = <<window.inner_size.width, window.inner_size.height>>
    /\ renderer.texture_depth_metadatas.width = renderer.window_size.width
    /\ IsSome(renderer.vertex_buffer)
    /\ Len(gpu.submitted) = 1

\* ------------------------------------------------ claims, legacy State

\* the swap chain description, and the swap chain made from it, have the
\* stored size
C29_State ==
    (state.phase = "live") =>
        /\ Unwrap(state.swap_chain_desc).width = state.size.width
        /\ Unwrap(state.swap_chain_desc).height = state.size.height
        /\ Unwrap(state.swap_chain).width = state.size.width
        /\ Unwrap(state.swap_chain).height = state.size.height
        /\ Len(state.submitted) <= state.renders

\* what stays of a State across a call, the record of the call aside
StateFields(s) == [s EXCEPT !.last = StateCall("", None, ""), !.renders = 0]

\* input() touches clear_color alone and only for CursorMoved; render()
\* submits one command buffer with a frame and none without
C29_Step ==
    /\ (state.phase = "live" /\ state'.last.op = "input") =>
          LET event == Unwrap(state'.last.arg)
          IN IF event.kind = "CursorMoved"
             THEN /\ state'.last.result = "true"
                  /\ StateFields(state')
                        = StateFields([state EXCEPT !.clear_color = state'.clear_color])
                  /\ state'.clear_color
                        = [r |-> <<event.position.x, state.size.width>>,
                           g |-> <<event.position.y, state.size.height>>,
                           b |-> "1.0", a |-> "1.0"]
             ELSE /\ state'.last.result = "false"
                  /\ StateFields(state') = StateFields(state)
    /\ (state.phase = "live" /\ state'.last.op = "render") =>
          /\ state'.last.arg = Some("Success") =>
                /\ state'.last.result = "Ok"
                /\ Len(state'.submitted) = Len(state.submitted) + 1
                /\ SubSeq(state'.submitted, 1, Len(state.submitted)) = state.submitted
                /\ Last(state'.submitted).pass.color_load = <<"Clear", state.clear_color>>
          /\ state'.last.arg # Some("Success") =>
                /\ state'.last.result = Unwrap(state'.last.arg)
                /\ state'.submitted = state.submitted
          /\ StateFields([state' EXCEPT !.submitted = <<>>])
                = StateFields([state EXCEPT !.submitted = <<>>])

\* C29: in the legacy State, swap_chain_desc.width/height equal the stored
\* size after new and after any calls of resize, input, update and render;
\* input changes only clear_color and returns true for CursorMoved, and
\* returns false and changes nothing for any other event; render submits
\* exactly one command buffer when the frame is acquired and none otherwise.
C29_LegacyState == []C29_State /\ [][C29_Step]_vars

C29_Witness ==
    /\ state.phase = "live"
    /\ state.last.op = "render" /\ state.last.result = "Ok"
    /\ state.renders = 2 /\ Len(state.submitted) = 1
    /\ state.size # window.inner_size
    /\ state.clear_color # Color_BLACK
    /\ Unwrap(state.swap_chain_desc).width = state.size.width

====
